---- MODULE Spec2Model ----
(***************************************************************************)
(* Model of package g (github.com/assaidy/g): an in-memory tree of Text    *)
(* and Element nodes, built by factories and Add, rendered to HTML.        *)
(*                                                                         *)
(* A Go string is a sequence of bytes (integers 0..255).  A node is a heap *)
(* cell; *Element pointers are indices into the heap.                      *)
(***************************************************************************)
EXTENDS Integers, Sequences, FiniteSets, TLC

VARIABLES heap, ret

vars == <<heap, ret>>

(***************************************************************************)
(* Bounds of the model.                                                    *)
(***************************************************************************)
\* number of nodes constructed in one run
MaxNodes == 2
\* number of child links (entries of all Children slices together)
MaxEdges == 2
\* number of attributes of the element of the single-element model
MaxAttrs == 2
\* number of bytes of the string of the text model
MaxLen == 3
\* the count passed to Repeat and the length of the slice passed to Map
MaxItems == 2
\* number of bytes of the attribute value of the escaping model
MaxValueLen == 2
\* number of maps, and of flags, passed to newElement in the construction
\* model
MaxMaps == 2

(***************************************************************************)
(* Bytes, runes and the library functions the package calls.               *)
(***************************************************************************)
\* an IsSpace that does not know the tab
IsSpaceNoTab(r) == r \in {10, 11, 12, 13, 32, 133, 160}

\* unicode.IsSpace for the code points below U+0800:
\* '\t' '\n' '\v' '\f' '\r' ' ' U+0085 (NEL) U+00A0 (NBSP)
IsSpace(r) == r \in {9, 10, 11, 12, 13, 32, 133, 160}

\* utf8.DecodeRuneInString at byte i of s, for bytes below 0xE0: the code
\* point and the number of bytes it takes; an invalid byte decodes to the
\* replacement character U+FFFD
DecodeRune(s, i) ==
    LET b == s[i] IN
    IF b < 128 THEN [r |-> b, w |-> 1]
    ELSE IF b >= 194 /\ b <= 223 /\ i < Len(s) /\ s[i + 1] >= 128 /\ s[i + 1] <= 191
         THEN [r |-> (b - 192) * 64 + (s[i + 1] - 128), w |-> 2]
         ELSE [r |-> 65533, w |-> 1]

\* the runes of s in order, each with the byte range it occupies
RECURSIVE RunesFrom(_, _)
RunesFrom(s, i) ==
    IF i > Len(s) THEN <<>>
    ELSE LET d == DecodeRune(s, i) IN
         <<[r |-> d.r, lo |-> i, hi |-> i + d.w - 1]>> \o RunesFrom(s, i + d.w)

Runes(s) == RunesFrom(s, 1)

\* the indices of the runes of rs that are not white space
NonSpace(rs) == {j \in 1..Len(rs) : ~IsSpace(rs[j].r)}

Min(S) == CHOOSE j \in S : \A k \in S : j <= k

Max(S) == CHOOSE j \in S : \A k \in S : j >= k

\* s cut to the runes of rs from the first to the last one of keep
TrimTo(s, rs, keep) ==
    IF keep = {} THEN <<>> ELSE SubSeq(s, rs[Min(keep)].lo, rs[Max(keep)].hi)

TrimRunes(s, rs) == TrimTo(s, rs, NonSpace(rs))

\* strings.TrimSpace: s without its leading and trailing white space runes
TrimSpace(s) == TrimRunes(s, Runes(s))

\* strings.FieldsFunc(s, unicode.IsSpace): the maximal runs of non-space runes
RECURSIVE FieldsFrom(_, _, _, _)
FieldsFrom(s, rs, j, cur) ==
    IF j > Len(rs) THEN (IF cur = <<>> THEN <<>> ELSE <<cur>>)
    ELSE IF IsSpace(rs[j].r)
         THEN (IF cur = <<>> THEN <<>> ELSE <<cur>>) \o FieldsFrom(s, rs, j + 1, <<>>)
         ELSE FieldsFrom(s, rs, j + 1, cur \o SubSeq(s, rs[j].lo, rs[j].hi))

FieldsFunc(s) == FieldsFrom(s, Runes(s), 1, <<>>)

\* strings.Join(elems, sep)
RECURSIVE Join(_, _)
Join(elems, sep) ==
    IF elems = <<>> THEN <<>>
    ELSE IF Len(elems) = 1 THEN elems[1]
    ELSE elems[1] \o sep \o Join(Tail(elems), sep)

\* an EscapeString that leaves the apostrophe as it is
EscapeByteKeepsApostrophe(b) ==
    CASE b = 38 -> <<38, 97, 109, 112, 59>>
      [] b = 60 -> <<38, 108, 116, 59>>
      [] b = 62 -> <<38, 103, 116, 59>>
      [] b = 34 -> <<38, 35, 51, 52, 59>>
      [] OTHER -> <<b>>

\* html.EscapeString of one byte: & ' < > " become entities
EscapeByte(b) ==
    CASE b = 38 -> <<38, 97, 109, 112, 59>>      \* &amp;
      [] b = 39 -> <<38, 35, 51, 57, 59>>        \* &#39;
      [] b = 60 -> <<38, 108, 116, 59>>          \* &lt;
      [] b = 62 -> <<38, 103, 116, 59>>          \* &gt;
      [] b = 34 -> <<38, 35, 51, 52, 59>>        \* &#34;
      [] OTHER -> <<b>>

\* html.EscapeString
RECURSIVE EscapeString(_)
EscapeString(s) ==
    IF s = <<>> THEN <<>> ELSE EscapeByte(Head(s)) \o EscapeString(Tail(s))

\* strings.Compare: -1, 0 or +1 by byte-wise lexicographic order
RECURSIVE Compare(_, _)
Compare(a, b) ==
    IF a = <<>> /\ b = <<>> THEN 0
    ELSE IF a = <<>> THEN -1
    ELSE IF b = <<>> THEN 1
    ELSE IF Head(a) < Head(b) THEN -1
    ELSE IF Head(a) > Head(b) THEN 1
    ELSE Compare(Tail(a), Tail(b))

\* a sort that leaves the slice in the order of the map iteration
SortInsertAppends(sorted, x) == Append(sorted, x)

\* slices.SortFunc with cmp = strings.Compare on .key: insertion of x into
\* a sorted slice, then the sort of a whole slice
RECURSIVE SortInsert(_, _)
SortInsert(sorted, x) ==
    IF sorted = <<>> THEN <<x>>
    ELSE IF Compare(x.key, Head(sorted).key) < 0 THEN <<x>> \o sorted
    ELSE <<Head(sorted)>> \o SortInsert(Tail(sorted), x)

RECURSIVE SortFunc(_)
SortFunc(slice) ==
    IF slice = <<>> THEN <<>>
    ELSE SortInsert(SortFunc(SubSeq(slice, 1, Len(slice) - 1)), slice[Len(slice)])

(***************************************************************************)
(* Errors.  The nil error, the three errors of renderAttrs (named by kind; *)
(* the message carries the trimmed key and, for a bad type, the %T of the  *)
(* value), and the crash of a run-away recursion.                          *)
(***************************************************************************)
NoErr == [kind |-> "nil"]

EmptyAttributeKey == [kind |-> "EmptyAttributeKey"]

NilAttributeValue(k) == [kind |-> "NilAttributeValue", key |-> k]

InvalidAttributeType(t, k) == [kind |-> "InvalidAttributeType", got |-> t, key |-> k]

\* a goroutine stack overflow: fatal, not an error value any caller receives
StackOverflow == [kind |-> "stack overflow"]

\* a run-time panic: fatal, not an error value any caller receives
Panic == [kind |-> "panic"]

(***************************************************************************)
(* Text.Render                                                             *)
(***************************************************************************)
\* a Text.Render that re-applies the leading space only
ReapplyEdgesLeadingOnly(startsWithSpace, endsWithSpace, s) ==
    (IF startsWithSpace THEN <<32>> ELSE <<>>) \o s

\* the two edge spaces re-applied to the joined fields s
ReapplyEdges(startsWithSpace, endsWithSpace, s) ==
    (IF startsWithSpace THEN <<32>> ELSE <<>>) \o s
        \o (IF endsWithSpace THEN <<32>> ELSE <<>>)

\* a Text.Render without the early return for "": s[0] is out of range
TextRenderIndexesEmpty(me) ==
    IF me = <<>> THEN [s |-> <<>>, err |-> [kind |-> "index out of range"]]
    ELSE [s |-> EscapeString(
                    ReapplyEdges(IsSpace(me[1]),
                                 Len(me) > 1 /\ IsSpace(me[Len(me)]),
                                 Join(FieldsFunc(me), <<32>>))),
          err |-> NoErr]

TextRender(me) ==
    IF me = <<>> THEN [s |-> <<>>, err |-> NoErr]
    ELSE [s |-> EscapeString(
                    ReapplyEdges(IsSpace(me[1]),
                                 Len(me) > 1 /\ IsSpace(me[Len(me)]),
                                 Join(FieldsFunc(me), <<32>>))),
          err |-> NoErr]

(***************************************************************************)
(* Attribute values (the dynamic type of a KV value) and Element.          *)
(***************************************************************************)
StringValue(s) == [type |-> "string", str |-> s]

BoolValue(b) == [type |-> "bool", b |-> b]

NilValue == [type |-> "nil"]

IntValue(i) == [type |-> "int", i |-> i]

\* a Text node in the heap
TextNode(s) == [kind |-> "Text", value |-> s]

\* type Element struct: Tag, IsVoid, Attrs (a KV: map from key to value),
\* Children (a slice of Nodes, here heap indices)
Element(tag, isVoid, attrs, children) ==
    [kind |-> "Element", Tag |-> tag, IsVoid |-> isVoid, Attrs |-> attrs,
     Children |-> children]

\* the empty KV, make(KV)
EmptyKV == [k \in {} |-> NilValue]

\* the orders in which `range` may visit the keys of a map
IterOrders(attrs) ==
    LET keys == DOMAIN attrs
        n == Cardinality(keys)
    IN  {f \in [1..n -> keys] : \A i, j \in 1..n : i # j => f[i] # f[j]}

(***************************************************************************)
(* Element.renderAttrs.  iter is the order in which range visits the map;  *)
(* the result is the builder as the call leaves it and the error returned. *)
(***************************************************************************)
RECURSIVE renderAttrsLoop(_, _, _)

\* renderAttr as it would be with the nil check before the key check
renderAttrNilFirst(builder, attrSlice, i, k, v) ==
    IF v.type = "nil" THEN [builder |-> builder, err |-> NilAttributeValue(k)]
    ELSE IF k = <<>> THEN [builder |-> builder, err |-> EmptyAttributeKey]
    ELSE IF v.type = "string"
         THEN renderAttrsLoop(
                  builder \o <<32>> \o k \o <<61, 34>> \o EscapeString(v.str) \o <<34>>,
                  attrSlice, i + 1)
    ELSE IF v.type = "bool"
         THEN renderAttrsLoop(IF v.b THEN builder \o <<32>> \o k ELSE builder,
                              attrSlice, i + 1)
    ELSE [builder |-> builder, err |-> InvalidAttributeType(v.type, k)]

\* renderAttr as it would be if an empty string value were left out
renderAttrOmitEmpty(builder, attrSlice, i, k, v) ==
    IF k = <<>> THEN [builder |-> builder, err |-> EmptyAttributeKey]
    ELSE IF v.type = "nil" THEN [builder |-> builder, err |-> NilAttributeValue(k)]
    ELSE IF v.type = "string"
         THEN renderAttrsLoop(
                  IF v.str = <<>> THEN builder
                  ELSE builder \o <<32>> \o k \o <<61, 34>> \o EscapeString(v.str)
                           \o <<34>>,
                  attrSlice, i + 1)
    ELSE IF v.type = "bool"
         THEN renderAttrsLoop(IF v.b THEN builder \o <<32>> \o k ELSE builder,
                              attrSlice, i + 1)
    ELSE [builder |-> builder, err |-> InvalidAttributeType(v.type, k)]

\* a loop body that writes a string value as it is
renderAttrRawValue(builder, attrSlice, i, k, v) ==
    IF k = <<>> THEN [builder |-> builder, err |-> EmptyAttributeKey]
    ELSE IF v.type = "nil" THEN [builder |-> builder, err |-> NilAttributeValue(k)]
    ELSE IF v.type = "string"
         THEN renderAttrsLoop(builder \o <<32>> \o k \o <<61, 34>> \o v.str \o <<34>>,
                              attrSlice, i + 1)
    ELSE IF v.type = "bool"
         THEN renderAttrsLoop(IF v.b THEN builder \o <<32>> \o k ELSE builder,
                              attrSlice, i + 1)
    ELSE [builder |-> builder, err |-> InvalidAttributeType(v.type, k)]

\* the body of the loop for the attribute with trimmed key k and value v
renderAttr(builder, attrSlice, i, k, v) ==
    IF k = <<>> THEN [builder |-> builder, err |-> EmptyAttributeKey]
    ELSE IF v.type = "nil" THEN [builder |-> builder, err |-> NilAttributeValue(k)]
    ELSE IF v.type = "string"
         THEN renderAttrsLoop(
                  builder \o <<32>> \o k \o <<61, 34>> \o EscapeString(v.str) \o <<34>>,
                  attrSlice, i + 1)
    ELSE IF v.type = "bool"
         THEN renderAttrsLoop(IF v.b THEN builder \o <<32>> \o k ELSE builder,
                              attrSlice, i + 1)
    ELSE [builder |-> builder, err |-> InvalidAttributeType(v.type, k)]

\* the loop over the sorted attrSlice, from index i
renderAttrsLoop(builder, attrSlice, i) ==
    IF i > Len(attrSlice) THEN [builder |-> builder, err |-> NoErr]
    ELSE renderAttr(builder, attrSlice, i,
                    TrimSpace(attrSlice[i].key), attrSlice[i].value)

\* the slice of kv pairs collected by the range loop
attrSliceOf(attrs, iter) ==
    [i \in 1..Len(iter) |-> [key |-> iter[i], value |-> attrs[iter[i]]]]

\* renderAttrs as it would be without the sort
renderAttrsUnsorted(builder, attrs, iter) ==
    renderAttrsLoop(builder, attrSliceOf(attrs, iter), 1)

renderAttrs(builder, attrs, iter) ==
    renderAttrsLoop(builder, SortFunc(attrSliceOf(attrs, iter)), 1)

(***************************************************************************)
(* Element.Render, Element.renderChildren and the dispatch of Node.Render. *)
(* h is the heap, it gives every element the iteration order of its range  *)
(* loop, path is the set of nodes whose Render is on the call stack: a     *)
(* node entered again while on the stack recurses without end.             *)
(***************************************************************************)
RECURSIVE NodeRender(_, _, _, _)
RECURSIVE renderChildrenLoop(_, _, _, _, _, _)

\* renderChild as it would be if a child were written before the builder
renderChildPrepends(builder, h, it, children, i, path, r) ==
    IF r.err # NoErr THEN [builder |-> builder, err |-> r.err]
    ELSE renderChildrenLoop(r.s \o builder, h, it, children, i + 1, path)

\* the body of the loop of renderChildren, r being children[i].Render()
renderChild(builder, h, it, children, i, path, r) ==
    IF r.err # NoErr THEN [builder |-> builder, err |-> r.err]
    ELSE renderChildrenLoop(builder \o r.s, h, it, children, i + 1, path)

\* the loop of renderChildren over me.Children, from index i
renderChildrenLoop(builder, h, it, children, i, path) ==
    IF i > Len(children) THEN [builder |-> builder, err |-> NoErr]
    ELSE renderChild(builder, h, it, children, i, path,
                     NodeRender(h, it, children[i], path))

renderChildren(builder, h, it, n, path) ==
    renderChildrenLoop(builder, h, it, h[n].Children, 1, path)

\* RenderEmptyTag as it would be if the empty tag were written like a tag
RenderEmptyTagWritten(r) ==
    IF r.err # NoErr THEN [s |-> <<>>, err |-> r.err]
    ELSE [s |-> <<60, 62>> \o r.builder \o <<60, 47, 62>>, err |-> NoErr]

\* Render of a tag-less element, r being the result of renderChildren
RenderEmptyTag(r) ==
    IF r.err # NoErr THEN [s |-> <<>>, err |-> r.err]
    ELSE [s |-> r.builder, err |-> NoErr]

\* an end of Render that writes no closing tag
RenderCloseOmitsTag(me, r) ==
    IF r.err = StackOverflow THEN [s |-> <<>>, err |-> StackOverflow]
    ELSE IF r.err # NoErr THEN [s |-> <<>>, err |-> NoErr]
    ELSE [s |-> r.builder, err |-> NoErr]

\* the end of Render, r being the result of renderChildren after the
\* opening tag
RenderClose(me, r) ==
    IF r.err = StackOverflow THEN [s |-> <<>>, err |-> StackOverflow]
    ELSE IF r.err # NoErr THEN [s |-> <<>>, err |-> NoErr]
    ELSE [s |-> r.builder \o <<60, 47>> \o me.Tag \o <<62>>, err |-> NoErr]

\* RenderTag as it would be if the builder were returned with the error
RenderTagKeepsPartial(h, it, n, path, a) ==
    IF a.err # NoErr THEN [s |-> a.builder, err |-> a.err]
    ELSE IF h[n].IsVoid THEN [s |-> a.builder \o <<62>>, err |-> NoErr]
    ELSE RenderClose(h[n], renderChildren(a.builder \o <<62>>, h, it, n, path))

\* RenderTag as it would be without the IsVoid test
RenderTagIgnoresVoid(h, it, n, path, a) ==
    IF a.err # NoErr THEN [s |-> <<>>, err |-> a.err]
    ELSE RenderClose(h[n], renderChildren(a.builder \o <<62>>, h, it, n, path))

\* Render from the attributes on, a being the result of renderAttrs on the
\* builder that holds "<" and the tag
RenderTag(h, it, n, path, a) ==
    IF a.err # NoErr THEN [s |-> <<>>, err |-> a.err]
    ELSE IF h[n].IsVoid THEN [s |-> a.builder \o <<62>>, err |-> NoErr]
    ELSE RenderClose(h[n], renderChildren(a.builder \o <<62>>, h, it, n, path))

ElementRender(h, it, n, path) ==
    IF h[n].Tag = <<>>
    THEN RenderEmptyTag(renderChildren(<<>>, h, it, n, path))
    ELSE RenderTag(h, it, n, path,
                   renderAttrs(<<60>> \o h[n].Tag, h[n].Attrs, it[n]))

NodeRender(h, it, n, path) ==
    IF n \in path THEN [s |-> <<>>, err |-> StackOverflow]
    ELSE IF h[n].kind = "Text" THEN TextRender(h[n].value)
    ELSE ElementRender(h, it, n, path \cup {n})

(***************************************************************************)
(* Render(writer, node).  A writer is a bytes.Buffer, whose Write accepts  *)
(* everything, or the errorWriter of the tests, whose Write always fails.  *)
(***************************************************************************)
Writers == {"Buffer", "errorWriter"}

WriteError == [kind |-> "write error"]

\* writer.Write(p): the error it returns
Write(w, p) == IF w = "errorWriter" THEN WriteError ELSE NoErr

\* RenderWrite as it would be if Write were called before the error check
RenderWriteBeforeCheck(w, r) ==
    [err |-> IF r.err # NoErr THEN r.err ELSE Write(w, r.s), writes |-> <<r.s>>]

\* RenderWrite as it would be if the result of Write were dropped
RenderWriteDropsError(w, r) ==
    IF r.err # NoErr THEN [err |-> r.err, writes |-> <<>>]
    ELSE [err |-> NoErr, writes |-> <<r.s>>]

\* RenderWrite as it would be if a failed Write were tried again
RenderWriteRetries(w, r) ==
    IF r.err # NoErr THEN [err |-> r.err, writes |-> <<>>]
    ELSE [err |-> Write(w, r.s),
          writes |-> IF Write(w, r.s) = NoErr THEN <<r.s>> ELSE <<r.s, r.s>>]

\* Render after node.Render() has returned r: the error returned and the
\* sequence of Write calls made on the writer
RenderWrite(w, r) ==
    IF r.err # NoErr THEN [err |-> r.err, writes |-> <<>>]
    ELSE [err |-> Write(w, r.s), writes |-> <<r.s>>]

Render(w, h, it, n) == RenderWrite(w, NodeRender(h, it, n, {}))

(***************************************************************************)
(* Construction: newElement, the factories, Add.                           *)
(***************************************************************************)
\* a newElement that stores a copy of the map it is passed (attrs[0] being a
\* reference to a map of the heap)
newElementCopies(tag, attrs, isVoid) ==
    [kind |-> "Element", Tag |-> tag,
     IsVoid |-> IF Len(isVoid) # 0 THEN isVoid[1] ELSE FALSE,
     Attrs |-> IF Len(attrs) # 0 THEN heap[attrs[1].ref].m ELSE EmptyKV,
     Children |-> <<>>]

\* newElement(tag, attrs, isVoid...): attrs is the slice of the factory's
\* variadic KVs, isVoid the variadic flags
newElement(tag, attrs, isVoid) ==
    Element(tag,
            IF Len(isVoid) # 0 THEN isVoid[1] ELSE FALSE,
            IF Len(attrs) # 0 THEN attrs[1] ELSE EmptyKV,
            <<>>)

\* Empty(attrs...)
Empty(attrs) == newElement(<<>>, attrs, <<>>)

\* Div(attrs...)
Div(attrs) == newElement(<<100, 105, 118>>, attrs, <<>>)

\* Img(attrs...)
Img(attrs) == newElement(<<105, 109, 103>>, attrs, <<TRUE>>)

\* an Add that puts the new children before the old ones
AddPrepends(me, children) ==
    IF ~me.IsVoid THEN [me EXCEPT !.Children = children \o me.Children] ELSE me

\* an Add that does not look at IsVoid
AddIgnoresVoid(me, children) == [me EXCEPT !.Children = me.Children \o children]

\* me.Add(children...): the element after the call
Add(me, children) ==
    IF ~me.IsVoid THEN [me EXCEPT !.Children = me.Children \o children] ELSE me

(***************************************************************************)
(* Inputs of the tree model.                                               *)
(***************************************************************************)
\* " <"
Texts == {<<32, 60>>}

\* the tags of the composite literals: "" and "img"
Tags == {<<>>, <<105, 109, 103>>}

\* KV{"k": nil}
BadKV == (<<107>> :> NilValue)

Ids == 1..Len(heap)

Elements == {n \in Ids : heap[n].kind = "Element"}

\* the number of child links in the heap
RECURSIVE EdgesFrom(_, _)
EdgesFrom(h, n) ==
    IF n > Len(h) THEN 0
    ELSE (IF h[n].kind = "Element" THEN Len(h[n].Children) ELSE 0) + EdgesFrom(h, n + 1)

Edges == EdgesFrom(heap, 1)

\* one iteration order for the range loop of every element of the heap
\* (for a Text, which has no map, the empty order), from node n on
RECURSIVE IterFrom(_, _)
IterFrom(h, n) ==
    IF n > Len(h) THEN {<<>>}
    ELSE {<<o>> \o rest :
            o \in IterOrders(IF h[n].kind = "Element" THEN h[n].Attrs ELSE EmptyKV),
            rest \in IterFrom(h, n + 1)}

IterChoices(h) == IterFrom(h, 1)

(***************************************************************************)
(* State: heap is the sequence of nodes constructed so far; ret records    *)
(* the last call: the operation, the node it was applied to or returned,   *)
(* the string and error returned, for Render(writer, node) the writer and  *)
(* the Write calls made on it, for Add, If, Repeat and Map the nodes       *)
(* passed to it or to the Add it calls, and for If, Repeat and Map the     *)
(* other inputs and the number of calls made of the function passed.       *)
(***************************************************************************)
Call(op, node, s, err, writes) ==
    [op |-> op, node |-> node, s |-> s, err |-> err, writer |-> "none",
     writes |-> writes, args |-> <<>>, input |-> <<>>, calls |-> 0]

\* the record of a call that returned the string and error of r
Returned(op, node, r) == Call(op, node, r.s, r.err, <<>>)

\* the record of a renderAttrs call that left the builder and error of r
Built(op, node, r) == Call(op, node, r.builder, r.err, <<>>)

\* the record of a Render(writer, node) call with outcome r
Written(w, node, r) ==
    [Call("Render", node, <<>>, r.err, r.writes) EXCEPT !.writer = w]

\* a render that overflowed the stack has ended the program
Crashed == ret.err = StackOverflow

Init ==
    /\ heap = <<>>
    /\ ret = Call("none", 0, <<>>, NoErr, <<>>)

\* Text(v)
NewText ==
    /\ ~Crashed
    /\ Len(heap) < MaxNodes
    /\ \E v \in Texts :
          /\ heap' = Append(heap, TextNode(v))
          /\ ret' = Call("Text", Len(heap) + 1, <<>>, NoErr, <<>>)

\* a factory call: Empty(), Div(), Div(BadKV), Img()
NewElement ==
    /\ ~Crashed
    /\ Len(heap) < MaxNodes
    /\ \E e \in {Empty(<<>>), Div(<<>>), Div(<<BadKV>>), Img(<<>>)} :
          /\ heap' = Append(heap, e)
          /\ ret' = Call("newElement", Len(heap) + 1, <<>>, NoErr, <<>>)

\* a composite literal &Element{Tag: .., IsVoid: true, Children: []Node{c}}:
\* the void elements with a child, which no factory and Add can build
Literal ==
    /\ ~Crashed
    /\ Len(heap) < MaxNodes
    /\ Edges < MaxEdges
    /\ \E tag \in Tags, c \in Ids :
          /\ heap' = Append(heap, Element(tag, TRUE, EmptyKV, <<c>>))
          /\ ret' = Call("Element", Len(heap) + 1, <<>>, NoErr, <<>>)

\* the record of a call that passed children to Add and returned node
Added(op, node, children) ==
    [Call(op, node, <<>>, NoErr, <<>>) EXCEPT !.args = children]

\* the argument lists of at most k nodes of the heap
Args(k) == UNION {[1..m -> Ids] : m \in 0..k}

\* me.Add(children...) with any nodes as arguments; returns me
DoAdd ==
    /\ ~Crashed
    /\ \E me \in Elements, children \in Args(MaxEdges - Edges) :
          /\ heap' = [heap EXCEPT ![me] = Add(heap[me], children)]
          /\ ret' = Added("Add", me, children)

\* n.Render() on an *Element
DoElementRender ==
    /\ ~Crashed
    /\ \E n \in Elements, it \in IterChoices(heap) :
          /\ ret' = Returned("Element.Render", n, NodeRender(heap, it, n, {}))
          /\ UNCHANGED heap

\* n.Render() on a Text
DoTextRender ==
    /\ ~Crashed
    /\ \E n \in Ids \ Elements, it \in IterChoices(heap) :
          /\ ret' = Returned("Text.Render", n, NodeRender(heap, it, n, {}))
          /\ UNCHANGED heap

\* n.renderAttrs(builder) on an *Element with a fresh builder
DoRenderAttrs ==
    /\ ~Crashed
    /\ \E n \in Elements, it \in IterChoices(heap) :
          /\ ret' = Built("renderAttrs", n, renderAttrs(<<>>, heap[n].Attrs, it[n]))
          /\ UNCHANGED heap

\* Render(writer, n)
DoRender ==
    /\ ~Crashed
    /\ \E w \in Writers, n \in Ids, it \in IterChoices(heap) :
          /\ ret' = Written(w, n, Render(w, heap, it, n))
          /\ UNCHANGED heap

\* Render on a nil *Element: the receiver is dereferenced (to copy it for
\* the value receiver of validateAttributes, to read me.Tag) before anything
\* is returned
NilElementRender == [s |-> <<>>, err |-> Panic]

\* (*Element)(nil).Render(); node 0 is the nil pointer
DoNilRender ==
    /\ ~Crashed
    /\ ret' = Returned("nil.Render", 0, NilElementRender)
    /\ UNCHANGED heap

Next ==
    \/ NewText
    \/ NewElement
    \/ Literal
    \/ DoAdd
    \/ DoElementRender
    \/ DoTextRender
    \/ DoRenderAttrs
    \/ DoRender

Spec == Init /\ [][Next]_vars

(***************************************************************************)
(* The single-element model: one element literal with any attribute map    *)
(* over a few keys and values, with no children or with a Text and a       *)
(* <div> that holds the same Text as children, and one render call on it.   *)
(***************************************************************************)
\* the keys "", " ", " b", "a", "b"
Keys == {<<>>, <<32>>, <<32, 98>>, <<97>>, <<98>>}

\* the values "", `<"`, true, false, nil, 123
Values == {StringValue(<<>>), StringValue(<<60, 34>>), BoolValue(TRUE),
           BoolValue(FALSE), NilValue, IntValue(123)}

KVs == UNION {[ks -> Values] : ks \in {K \in SUBSET Keys : Cardinality(K) <= MaxAttrs}}

InitElement ==
    /\ \E tag \in {<<>>, <<100, 105, 118>>}, isVoid \in BOOLEAN, attrs \in KVs,
          children \in {<<>>, <<1, 2>>} :
          heap = <<TextNode(<<32, 60>>),
                   Add(Div(<<>>), <<1>>),
                   Element(tag, isVoid, attrs, children)>>
    /\ ret = Call("none", 0, <<>>, NoErr, <<>>)

\* no call has been made yet
Fresh == ret.op = "none"

NextElement ==
    \/ Fresh /\ DoElementRender
    \/ Fresh /\ DoTextRender
    \/ Fresh /\ DoRenderAttrs
    \/ Fresh /\ DoRender
    \/ Fresh /\ DoNilRender

SpecElement == InitElement /\ [][NextElement]_vars

(***************************************************************************)
(* The escaping model: one element literal with one string attribute and a *)
(* Text child, with the characters html.EscapeString replaces in the tag,  *)
(* the key, the value and the text, and one render call.                   *)
(***************************************************************************)
\* '"' '&' '\'' '<' '>' 'a'
SpecialBytes == {34, 38, 39, 60, 62, 97}

\* the attribute values: the strings of at most k of these bytes
SpecialStrings(k) == UNION {[1..m -> SpecialBytes] : m \in 0..k}

\* the tags "div" and "a<"
SpecialTags == {<<100, 105, 118>>, <<97, 60>>}

\* the keys "<", `a"` and " &"
SpecialKeys == {<<60>>, <<97, 34>>, <<32, 38>>}

\* the texts "a", "<&>" and `'"`
SpecialTexts == {<<97>>, <<60, 38, 62>>, <<39, 34>>}

InitEscape ==
    /\ \E tag \in SpecialTags, key \in SpecialKeys, text \in SpecialTexts,
          value \in SpecialStrings(MaxValueLen) :
          heap = <<TextNode(text),
                   Element(tag, FALSE, (key :> StringValue(value)), <<1>>)>>
    /\ ret = Call("none", 0, <<>>, NoErr, <<>>)

SpecEscape == InitEscape /\ [][NextElement]_vars

(***************************************************************************)
(* The construction model.  A Go map is a reference: the caller of          *)
(* newElement may hold the map it passes and write to it afterwards.  Here  *)
(* the maps of the caller are cells of the heap, a KV passed to newElement  *)
(* is a reference to a cell, and newElement stores what it is passed.       *)
(***************************************************************************)
\* a map the caller holds
KVCell(m) == [kind |-> "KV", m |-> m]

\* the references to the maps of the heap
KVRefs == {[ref |-> i] : i \in {j \in Ids : heap[j].kind = "KV"}}

\* the variadic argument lists of at most k values of S
Variadic(S, k) == UNION {[1..m -> S] : m \in 0..k}

\* KV{"a": "x"} and KV{"b": true}
InitNew ==
    /\ heap = <<KVCell(<<97>> :> StringValue(<<120>>)),
                KVCell(<<98>> :> BoolValue(TRUE))>>
    /\ ret = Call("none", 0, <<>>, NoErr, <<>>)

\* newElement(tag, attrs, isVoid...) with maps the caller holds
DoNewElement ==
    /\ ~Crashed
    /\ \E tag \in {<<>>, <<100, 105, 118>>}, attrs \in Variadic(KVRefs, MaxMaps),
          isVoid \in Variadic(BOOLEAN, MaxMaps) :
          /\ heap' = Append(heap, newElement(tag, attrs, isVoid))
          /\ ret' = [Call("newElement", Len(heap) + 1, <<>>, NoErr, <<>>) EXCEPT
                       !.args = attrs, !.input = isVoid]

\* kv[key] = value by the caller on one of its maps, after the construction;
\* ret keeps the record of the construction
DoSetKey ==
    /\ ~Crashed
    /\ \E r \in KVRefs, key \in {<<97>>, <<98>>},
          value \in {StringValue(<<120>>), BoolValue(TRUE)} :
          /\ heap' = [heap EXCEPT ![r.ref].m = (key :> value) @@ @]
          /\ ret' = [ret EXCEPT !.op = "KV.set"]

\* an element has been constructed
Constructed == ret.op \in {"newElement", "KV.set"}

NextNew ==
    \/ Fresh /\ DoNewElement
    \/ Constructed /\ DoSetKey

SpecNew == InitNew /\ [][NextNew]_vars

(***************************************************************************)
(* The text model: one Text of any string of at most MaxLen bytes over a   *)
(* few bytes, and one render call on it.                                   *)
(***************************************************************************)
\* '\t' ' ' '"' '&' '\'' '<' '>' 'a', and 0xA0, 0xC2 and 0xC3: 0xC2 0xA0 is
\* the no-break space U+00A0 and 0xC3 0xA0 the letter U+00E0; any of the
\* three bytes alone is not valid UTF-8
TextBytes == {9, 32, 34, 38, 39, 60, 62, 97, 160, 194, 195}

\* the strings of at most k bytes
Strings(k) == UNION {[1..m -> TextBytes] : m \in 0..k}

InitText ==
    /\ \E s \in Strings(MaxLen) : heap = <<TextNode(s)>>
    /\ ret = Call("none", 0, <<>>, NoErr, <<>>)

NextText ==
    \/ Fresh /\ DoTextRender
    \/ Fresh /\ DoRender

SpecText == InitText /\ [][NextText]_vars

(***************************************************************************)
(* The inline functions If, Repeat and Map.  A func passed to Repeat or    *)
(* Map is one of a few closures; a call of it may construct a node.        *)
(***************************************************************************)
\* the outcome of a call that built a node: the heap after it, the node
\* returned, the nodes passed on and the number of calls of f made
Outcome(h, node, args, calls) ==
    [heap |-> h, node |-> node, args |-> args, calls |-> calls, err |-> NoErr]

\* an If that returns result whatever the condition
IfReturnsResult(h, condition, result) == Outcome(h, result, <<result>>, 0)

\* If(condition, result)
If(h, condition, result) ==
    IF condition THEN Outcome(h, result, <<result>>, 0)
    ELSE Outcome(Append(h, Empty(<<>>)), Len(h) + 1, <<result>>, 0)

\* the funcs passed to Repeat: func() Node { return Text(" <") },
\* func() Node { return Div() }, and func() Node { return c } for a node c
RepeatFuncs(h) ==
    {[kind |-> "Text"], [kind |-> "Div"]}
        \cup {[kind |-> "Same", node |-> c] : c \in 1..Len(h)}

\* f() for a func passed to Repeat: the heap after the call and its result
CallFunc(h, f) ==
    CASE f.kind = "Text" -> [heap |-> Append(h, TextNode(<<32, 60>>)), node |-> Len(h) + 1]
      [] f.kind = "Div" -> [heap |-> Append(h, Div(<<>>)), node |-> Len(h) + 1]
      [] f.kind = "Same" -> [heap |-> h, node |-> f.node]

\* the loop state: the heap, the result slice (0 is a nil Node) and the
\* number of calls of f made
LoopState(h, n) == [heap |-> h, result |-> [j \in 1..n |-> 0], calls |-> 0]

\* a loop body that fills the result slice from its end
LoopStepBackwards(st, i, r) ==
    [heap |-> r.heap, result |-> [st.result EXCEPT ![Len(st.result) - i] = r.node],
     calls |-> st.calls + 1]

\* result[i] = f(...), where r is the outcome of the call of f
LoopStep(st, i, r) ==
    [heap |-> r.heap, result |-> [st.result EXCEPT ![i + 1] = r.node],
     calls |-> st.calls + 1]

\* for i := range n { result[i] = f() }, from iteration i on
RECURSIVE RepeatLoop(_, _, _, _)
RepeatLoop(st, n, f, i) ==
    IF i >= n THEN st
    ELSE RepeatLoop(LoopStep(st, i, CallFunc(st.heap, f)), n, f, i + 1)

\* return Empty().Add(result...)
Aggregate(st) ==
    Outcome(Append(st.heap, Add(Empty(<<>>), st.result)), Len(st.heap) + 1,
            st.result, st.calls)

\* Repeat(n, f); make([]Node, n) panics when n is negative
Repeat(h, n, f) ==
    IF n < 0 THEN [Outcome(h, 0, <<>>, 0) EXCEPT !.err = Panic]
    ELSE Aggregate(RepeatLoop(LoopState(h, n), n, f, 0))

\* the items of the slices passed to Map: "a" and "<"
Items == {<<97>>, <<60>>}

\* the funcs passed to Map: func(item string) Node { return Text(item) },
\* and func(item string) Node { return c } for a node c
MapFuncs(h) ==
    {[kind |-> "Text"]} \cup {[kind |-> "Same", node |-> c] : c \in 1..Len(h)}

\* f(item) for a func passed to Map
CallItemFunc(h, f, item) ==
    CASE f.kind = "Text" -> [heap |-> Append(h, TextNode(item)), node |-> Len(h) + 1]
      [] f.kind = "Same" -> [heap |-> h, node |-> f.node]

\* a Map that takes the items from the end of the slice
RECURSIVE MapLoopFromEnd(_, _, _, _)
MapLoopFromEnd(st, input, f, i) ==
    IF i >= Len(input) THEN st
    ELSE MapLoopFromEnd(LoopStep(st, i, CallItemFunc(st.heap, f, input[Len(input) - i])),
                        input, f, i + 1)

\* for i, item := range input { result[i] = f(item) }, from iteration i on
RECURSIVE MapLoop(_, _, _, _)
MapLoop(st, input, f, i) ==
    IF i >= Len(input) THEN st
    ELSE MapLoop(LoopStep(st, i, CallItemFunc(st.heap, f, input[i + 1])), input, f, i + 1)

\* Map(input, f)
Map(h, input, f) == Aggregate(MapLoop(LoopState(h, Len(input)), input, f, 0))

\* the step of a call of an inline function with outcome r
Inline(op, input, r) ==
    /\ heap' = r.heap
    /\ ret' = [Call(op, r.node, <<>>, r.err, <<>>) EXCEPT
                 !.args = r.args, !.input = input, !.calls = r.calls]

DoIf ==
    /\ ~Crashed
    /\ \E condition \in BOOLEAN, result \in Ids :
          Inline("If", condition, If(heap, condition, result))

DoRepeat ==
    /\ ~Crashed
    /\ \E n \in (-1)..MaxItems, f \in RepeatFuncs(heap) :
          Inline("Repeat", [n |-> n, f |-> f], Repeat(heap, n, f))

DoMap ==
    /\ ~Crashed
    /\ \E input \in UNION {[1..m -> Items] : m \in 0..MaxItems}, f \in MapFuncs(heap) :
          Inline("Map", [input |-> input, f |-> f], Map(heap, input, f))

\* a Text, a <div> that holds it, and a <div> with an invalid attribute
InitInline ==
    /\ heap = <<TextNode(<<32, 60>>), Add(Div(<<>>), <<1>>), Div(<<BadKV>>)>>
    /\ ret = Call("none", 0, <<>>, NoErr, <<>>)

\* the last call was of an inline function, and it returned
Inlined == ret.op \in {"If", "Repeat", "Map"} /\ ret.err = NoErr

\* one call of an inline function, then one render of a node
NextInline ==
    \/ Fresh /\ DoIf
    \/ Fresh /\ DoRepeat
    \/ Fresh /\ DoMap
    \/ Inlined /\ DoElementRender
    \/ Inlined /\ DoTextRender
    \/ Inlined /\ DoRender

SpecInline == InitInline /\ [][NextInline]_vars

(***************************************************************************)
(* Properties.  What a node renders to in the current heap, whatever the   *)
(* iteration order of the maps, and what the last call was applied to.     *)
(***************************************************************************)
AnyIter == CHOOSE it \in IterChoices(heap) : TRUE

Rendered(n) == NodeRender(heap, AnyIter, n, {})

ValidationError(e) ==
    e.kind \in {"EmptyAttributeKey", "NilAttributeValue", "InvalidAttributeType"}

\* the element the last call was applied to, its attributes and children
Me == heap[ret.node]

\* the children whose Render an element's Render calls
KidsOf(n) ==
    IF heap[n].kind = "Element" /\ ~heap[n].IsVoid
    THEN {heap[n].Children[i] : i \in 1..Len(heap[n].Children)}
    ELSE {}

RECURSIVE Reach(_, _)
Reach(S, k) ==
    IF k = 0 THEN S ELSE Reach(S \cup UNION {KidsOf(m) : m \in S}, k - 1)

\* the nodes below n that a render of n may reach
Descendants(n) == Reach(KidsOf(n), Len(heap))

\* the concatenation of what the nodes of a sequence render to
RECURSIVE ConcatRendered(_)
ConcatRendered(children) ==
    IF children = <<>> THEN <<>>
    ELSE Rendered(Head(children)).s \o ConcatRendered(Tail(children))

AllRenderOK(children) ==
    \A i \in 1..Len(children) : Rendered(children[i]).err = NoErr

\* a key that is empty once its surrounding white space is trimmed
BlankKey(k) == \A i \in 1..Len(k) : IsSpace(k[i])

\* an attribute that is invalid: blank key, nil value, or a value that is
\* neither a string nor a bool
InvalidAttr(k, v) == BlankKey(k) \/ v.type \notin {"string", "bool"}

InvalidKeys(attrs) == {k \in DOMAIN attrs : InvalidAttr(k, attrs[k])}

\* a comes before b in byte order
ByteLess(a, b) ==
    \E i \in 1..Len(b) :
       /\ \A j \in 1..(i - 1) : j <= Len(a) /\ a[j] = b[j]
       /\ (i > Len(a) \/ a[i] < b[i])

SmallestKey(S) == CHOOSE k \in S : \A k2 \in S \ {k} : ByteLess(k, k2)

\* the keys of S in ascending byte order
RECURSIVE SortedKeys(_)
SortedKeys(S) ==
    IF S = {} THEN <<>>
    ELSE <<SmallestKey(S)>> \o SortedKeys(S \ {SmallestKey(S)})

\* what the claims say one attribute is written as
ExpectedAttr(k, v) ==
    IF v.type = "bool" THEN (IF v.b THEN <<32>> \o TrimSpace(k) ELSE <<>>)
    ELSE <<32>> \o TrimSpace(k) \o <<61, 34>> \o EscapeString(v.str) \o <<34>>

RECURSIVE ConcatAttrs(_, _)
ConcatAttrs(attrs, keys) ==
    IF keys = <<>> THEN <<>>
    ELSE ExpectedAttr(Head(keys), attrs[Head(keys)]) \o ConcatAttrs(attrs, Tail(keys))

\* the serialization of a valid attribute map: its attributes by ascending key
ExpectedAttrs(attrs) == ConcatAttrs(attrs, SortedKeys(DOMAIN attrs))

\* the last call ran renderAttrs on Me: renderAttrs itself, or Render of an
\* element with a tag
AttrsRendered ==
    \/ ret.op = "renderAttrs"
    \/ ret.op = "Element.Render" /\ Me.Tag # <<>>

\* the attributes that are written: strings and true
EmittingKeys(attrs) ==
    {k \in DOMAIN attrs :
       attrs[k].type = "string" \/ (attrs[k].type = "bool" /\ attrs[k].b)}

\* the part of the output that holds the attributes: the builder of
\* renderAttrs, or what lies between "<tag" and the first ">" of Render
AttrPart ==
    IF ret.op = "renderAttrs" THEN ret.s
    ELSE SubSeq(ret.s, Len(Me.Tag) + 2,
                Min({i \in 1..Len(ret.s) : ret.s[i] = 62}) - 1)

\* the attribute names of s, in the order they appear: each starts after a
\* space and ends before the next "=" or space
NameEnd(s, i) == Min({j \in (i + 1)..Len(s) : s[j] \in {32, 61}} \cup {Len(s) + 1})

RECURSIVE NamesFrom(_, _)
NamesFrom(s, i) ==
    IF i > Len(s) THEN <<>>
    ELSE IF s[i] = 32
         THEN <<SubSeq(s, i + 1, NameEnd(s, i) - 1)>> \o NamesFrom(s, i + 1)
         ELSE NamesFrom(s, i + 1)

EmittedNames == NamesFrom(AttrPart, 1)

\* the last call wrote the attributes of Me without error
AttrsWritten == AttrsRendered /\ ret.err = NoErr /\ (ret.op = "renderAttrs" \/ ret.s # <<>>)

\* C1: when the Render of a descendant of a non-void element fails with a
\* validation error, Element.Render of that element returns a non-nil error
\* and the empty string.
C1_ChildFailurePropagates ==
    (/\ ret.op = "Element.Render"
     /\ ~Me.IsVoid
     /\ \E d \in Descendants(ret.node) : ValidationError(Rendered(d).err))
    => (ret.err # NoErr /\ ret.s = <<>>)

\* C2: Render(writer, node) makes no Write call and returns the error of
\* node.Render() when that fails; otherwise it makes exactly one Write call,
\* with the whole rendered string.
C2_RenderWritesNothingOnFailure ==
    ret.op = "Render" =>
        IF Rendered(ret.node).err # NoErr
        THEN ret.writes = <<>> /\ ret.err = Rendered(ret.node).err
        ELSE ret.writes = <<Rendered(ret.node).s>>

\* a Render(writer, node) that failed on an invalid attribute
C2_Witness ==
    /\ ret.op = "Render"
    /\ ValidationError(ret.err)
    /\ ret.writes = <<>>

\* C3: when node.Render() succeeds and the writer's Write fails, Render
\* returns the writer's error itself.
C3_WriteErrorSurfaces ==
    (/\ ret.op = "Render"
     /\ ret.writer = "errorWriter"
     /\ Rendered(ret.node).err = NoErr)
    => ret.err = WriteError

\* a Render on the failing writer of a node that rendered to a non-empty
\* string
C3_Witness ==
    /\ ret.op = "Render"
    /\ ret.writer = "errorWriter"
    /\ Len(ret.writes) = 1
    /\ ret.writes[1] # <<>>
    /\ ret.err = WriteError

\* C9: a tag-less element whose children all render renders to the
\* concatenation of what they render to, in order, and to the empty string
\* when it has no children.
C9_TaglessWrapper ==
    (/\ ret.op = "Element.Render"
     /\ Me.Tag = <<>>
     /\ AllRenderOK(Me.Children))
    => (ret.err = NoErr /\ ret.s = ConcatRendered(Me.Children))

\* a tag-less element rendered with two children, a Text and an element,
\* that render differently
C9_Witness ==
    /\ ret.op = "Element.Render"
    /\ Me.Tag = <<>>
    /\ Len(Me.Children) = 2
    /\ AllRenderOK(Me.Children)
    /\ Rendered(Me.Children[1]).s # Rendered(Me.Children[2]).s
    /\ Rendered(Me.Children[1]).s # <<>>
    /\ Rendered(Me.Children[2]).s # <<>>
    /\ ret.err = NoErr

\* C4: Render of an element with a tag and an invalid attribute returns a
\* non-nil error and the empty string.
C4_InvalidAttributeNoOutput ==
    (/\ ret.op = "Element.Render"
     /\ Me.Tag # <<>>
     /\ InvalidKeys(Me.Attrs) # {})
    => (ret.err # NoErr /\ ret.s = <<>>)

\* a failed Render of an element whose first attribute in key order is a
\* valid string and whose later one is invalid
C4_Witness ==
    /\ ret.op = "Element.Render"
    /\ Me.Tag # <<>>
    /\ ValidationError(ret.err)
    /\ \E k1, k2 \in DOMAIN Me.Attrs :
          /\ ByteLess(k1, k2)
          /\ ~BlankKey(k1)
          /\ Me.Attrs[k1].type = "string"
          /\ InvalidAttr(k2, Me.Attrs[k2])

\* the kind of error the claim gives an invalid attribute
ExpectedKind(k, v) ==
    IF BlankKey(k) THEN "EmptyAttributeKey"
    ELSE IF v.type = "nil" THEN "NilAttributeValue"
    ELSE "InvalidAttributeType"

\* C5: the error of renderAttrs is the one of the invalid attribute with the
\* smallest key in byte order: EmptyAttributeKey for a blank key, else
\* NilAttributeValue for nil, else InvalidAttributeType; whatever the order
\* in which the map is iterated.
C5_FirstInvalidInKeyOrder ==
    (AttrsRendered /\ InvalidKeys(Me.Attrs) # {})
    => ret.err.kind = ExpectedKind(SmallestKey(InvalidKeys(Me.Attrs)),
                                   Me.Attrs[SmallestKey(InvalidKeys(Me.Attrs))])

\* renderAttrs has failed on a map with two invalid attributes of different
\* kinds
C5_Witness ==
    /\ ret.op = "renderAttrs"
    /\ ValidationError(ret.err)
    /\ \E k1, k2 \in InvalidKeys(Me.Attrs) :
          ExpectedKind(k1, Me.Attrs[k1]) # ExpectedKind(k2, Me.Attrs[k2])

\* C6 as stated: the attribute names, as they appear in the opening tag, are
\* in ascending byte order.
C6_EmittedNamesAscending ==
    AttrsWritten =>
        \A i, j \in 1..Len(EmittedNames) :
           i < j => ~ByteLess(EmittedNames[j], EmittedNames[i])

\* C6 as amended: the attributes appear by ascending byte order of their map
\* keys as given, each under its trimmed key, whatever the order in which
\* the map is iterated; so the names are ascending when no key has
\* surrounding white space.
C6_AttrsInKeyOrder ==
    AttrsWritten =>
        /\ EmittedNames = [i \in 1..Cardinality(EmittingKeys(Me.Attrs)) |->
                             TrimSpace(SortedKeys(EmittingKeys(Me.Attrs))[i])]
        /\ (\A k \in DOMAIN Me.Attrs : TrimSpace(k) = k)
              => \A i, j \in 1..Len(EmittedNames) :
                    i < j => ByteLess(EmittedNames[i], EmittedNames[j])

\* two attributes were written, one of them under a key with surrounding
\* white space
C6_Witness ==
    /\ AttrsWritten
    /\ ret.op = "Element.Render"
    /\ Len(EmittedNames) = 2
    /\ \E k \in EmittingKeys(Me.Attrs) : TrimSpace(k) # k

\* C7: false writes nothing, true writes a space and the name, a string
\* writes ` name="v"` with v escaped, also when the string is empty.
C7_ValueCoercion ==
    (ret.op = "renderAttrs" /\ ret.err = NoErr) => ret.s = ExpectedAttrs(Me.Attrs)

\* renderAttrs has written a map that holds an empty string and a false
C7_Witness ==
    /\ ret.op = "renderAttrs"
    /\ ret.err = NoErr
    /\ \E k1, k2 \in DOMAIN Me.Attrs :
          /\ Me.Attrs[k1] = StringValue(<<>>)
          /\ Me.Attrs[k2] = BoolValue(FALSE)

\* C8: a void element with a tag and valid attributes renders to "<tag",
\* its attributes and ">", whatever its Children.
C8_VoidElement ==
    (/\ ret.op = "Element.Render"
     /\ Me.IsVoid
     /\ Me.Tag # <<>>
     /\ InvalidKeys(Me.Attrs) = {})
    => (/\ ret.err = NoErr
        /\ ret.s = <<60>> \o Me.Tag \o ExpectedAttrs(Me.Attrs) \o <<62>>)

\* a void element with a tag, an attribute that is written and children has
\* been rendered
C8_Witness ==
    /\ ret.op = "Element.Render"
    /\ Me.IsVoid
    /\ Me.Tag # <<>>
    /\ Me.Children # <<>>
    /\ EmittingKeys(Me.Attrs) # {}
    /\ ret.err = NoErr

\* C10: a non-void element with a tag, valid attributes and children that
\* all render renders to "<t", its attributes, ">", what its children
\* render to in order, and "</t>".
C10_ElementWithChildren ==
    (/\ ret.op = "Element.Render"
     /\ ~Me.IsVoid
     /\ Me.Tag # <<>>
     /\ InvalidKeys(Me.Attrs) = {}
     /\ AllRenderOK(Me.Children))
    => (/\ ret.err = NoErr
        /\ ret.s = <<60>> \o Me.Tag \o ExpectedAttrs(Me.Attrs) \o <<62>>
                     \o ConcatRendered(Me.Children)
                     \o <<60, 47>> \o Me.Tag \o <<62>>)

\* a non-void element with a written attribute and two children, a Text and
\* an element with a child of its own, has been rendered
C10_Witness ==
    /\ ret.op = "Element.Render"
    /\ ~Me.IsVoid
    /\ Me.Tag # <<>>
    /\ EmittingKeys(Me.Attrs) # {}
    /\ Len(Me.Children) = 2
    /\ heap[Me.Children[1]].kind = "Text"
    /\ heap[Me.Children[2]].kind = "Element"
    /\ heap[Me.Children[2]].Children # <<>>
    /\ ret.err = NoErr
    /\ ret.s # <<>>

(***************************************************************************)
(* Text.Render against a reference for ASCII strings.                      *)
(***************************************************************************)
\* the string of the Text the last call was applied to
TextValue == heap[ret.node].value

Ascii(s) == \A i \in 1..Len(s) : s[i] < 128

\* the ASCII white space: '\t' '\n' '\v' '\f' '\r' ' '
AsciiSpace(b) == b \in {9, 10, 11, 12, 13, 32}

AllSpace(s) == \A i \in 1..Len(s) : AsciiSpace(s[i])

\* s with every run of white space replaced by one space
RECURSIVE CollapseFrom(_, _)
CollapseFrom(s, i) ==
    IF i > Len(s) THEN <<>>
    ELSE (IF ~AsciiSpace(s[i]) THEN <<s[i]>>
          ELSE IF i > 1 /\ AsciiSpace(s[i - 1]) THEN <<>> ELSE <<32>>)
         \o CollapseFrom(s, i + 1)

\* L + W + T of a non-empty ASCII string: a string of white space only has
\* no word, so it gives L + T; any other gives its collapsed form, whose
\* edge spaces are L and T
Reference(s) ==
    IF AllSpace(s) THEN (IF Len(s) > 1 THEN <<32, 32>> ELSE <<32>>)
    ELSE CollapseFrom(s, 1)

\* no leading, trailing or repeated white space
NoEdgeOrRepeatedSpace(s) ==
    /\ ~AsciiSpace(s[1])
    /\ ~AsciiSpace(s[Len(s)])
    /\ \A i \in 1..(Len(s) - 1) : ~(AsciiSpace(s[i]) /\ AsciiSpace(s[i + 1]))

\* no white space character other than the space
OnlySpaces(s) == \A i \in 1..Len(s) : AsciiSpace(s[i]) => s[i] = 32

\* C11 as stated: for every non-empty ASCII string s, Text(s).Render() is
\* the HTML-escaped L + W + T, and a string with no leading, trailing or
\* repeated white space renders to its HTML-escaped self.
C11_TextReferenceAndSelf ==
    (/\ ret.op = "Text.Render"
     /\ TextValue # <<>>
     /\ Ascii(TextValue))
    => /\ ret.s = EscapeString(Reference(TextValue))
       /\ NoEdgeOrRepeatedSpace(TextValue) => ret.s = EscapeString(TextValue)

\* C11: for every non-empty ASCII string s, Text(s).Render() is the
\* HTML-escaped L + W + T; a string with no leading, trailing or repeated
\* white space, whose white space characters are all spaces, renders to its
\* HTML-escaped self.
C11_TextReference ==
    (/\ ret.op = "Text.Render"
     /\ TextValue # <<>>
     /\ Ascii(TextValue))
    => /\ ret.s = EscapeString(Reference(TextValue))
       /\ (NoEdgeOrRepeatedSpace(TextValue) /\ OnlySpaces(TextValue))
              => ret.s = EscapeString(TextValue)

\* a rendered ASCII string with a tab before and a space after a word
C11_Witness ==
    /\ ret.op = "Text.Render"
    /\ Len(TextValue) = 3
    /\ TextValue[1] = 9
    /\ ~AsciiSpace(TextValue[2])
    /\ TextValue[2] < 128
    /\ TextValue[3] = 32
    /\ Len(ret.s) >= 3

\* C12: Text.Render returns a nil error for every string, and the empty
\* string for the empty string.
C12_TextRenderTotal ==
    ret.op = "Text.Render" =>
        /\ ret.err = NoErr
        /\ TextValue = <<>> => ret.s = <<>>

\* the empty Text rendered
C12_Witness ==
    /\ ret.op = "Text.Render"
    /\ TextValue = <<>>
    /\ ret.err = NoErr

\* the five entities by the byte they stand for
Entities ==
    (38 :> <<38, 97, 109, 112, 59>>) @@ (60 :> <<38, 108, 116, 59>>)
    @@ (62 :> <<38, 103, 116, 59>>) @@ (34 :> <<38, 35, 51, 52, 59>>)
    @@ (39 :> <<38, 35, 51, 57, 59>>)

StartsAt(s, i, e) ==
    i + Len(e) - 1 <= Len(s) /\ SubSeq(s, i, i + Len(e) - 1) = e

EntitiesAt(s, i) == {b \in DOMAIN Entities : StartsAt(s, i, Entities[b])}

\* the byte of the entity at i of s, and the bytes the entity takes
EntityAt(s, i, b) == [b |-> b, w |-> Len(Entities[b])]

\* the text an escaped string stands for, read from byte i on; -1 marks a
\* raw < > " ' or an & that starts none of the five entities
RECURSIVE Unescape(_, _)
UnescapeEntity(s, i, e) == <<e.b>> \o Unescape(s, i + e.w)

Unescape(s, i) ==
    IF i > Len(s) THEN <<>>
    ELSE IF s[i] = 38
         THEN (IF EntitiesAt(s, i) = {} THEN <<-1>>
               ELSE UnescapeEntity(s, i,
                        EntityAt(s, i, CHOOSE b \in EntitiesAt(s, i) : TRUE)))
         ELSE IF s[i] \in {60, 62, 34, 39} THEN <<-1>>
         ELSE <<s[i]>> \o Unescape(s, i + 1)

\* the string of a Text after normalization, before escaping
Normalized(me) ==
    IF me = <<>> THEN <<>>
    ELSE ReapplyEdges(IsSpace(me[1]), Len(me) > 1 /\ IsSpace(me[Len(me)]),
                      Join(FieldsFunc(me), <<32>>))

\* C13: the output of Text.Render has no raw < > " ' and no & other than the
\* first byte of one of the five entities, and reading each entity back as
\* the character it stands for gives the normalized input: every special
\* character is replaced once, every other byte is passed through.
C13_TextEscaped ==
    ret.op = "Text.Render" => Unescape(ret.s, 1) = Normalized(TextValue)

\* a rendered Text with an ampersand and an apostrophe
C13_Witness ==
    /\ ret.op = "Text.Render"
    /\ \E i, j \in 1..Len(TextValue) : TextValue[i] = 38 /\ TextValue[j] = 39
    /\ Len(ret.s) > Len(TextValue)

(***************************************************************************)
(* Rendering again.                                                        *)
(***************************************************************************)
\* C14: rendering the tree again, unmodified, gives what the last render
\* call gave, the same string and the same error, whatever order the maps
\* are iterated in.
C14_RenderDeterministic ==
    \A it \in IterChoices(heap) :
        /\ ret.op \in {"Element.Render", "Text.Render"}
              => Returned(ret.op, ret.node, NodeRender(heap, it, ret.node, {})) = ret
        /\ ret.op = "Render"
              => Written(ret.writer, ret.node, Render(ret.writer, heap, it, ret.node)) = ret

\* a rendered element with two attributes that are both written
C14_Witness ==
    /\ ret.op = "Element.Render"
    /\ Cardinality(DOMAIN Me.Attrs) = 2
    /\ EmittingKeys(Me.Attrs) = DOMAIN Me.Attrs
    /\ ret.err = NoErr
    /\ ret.s # <<>>
    /\ Me.Tag # <<>>

(***************************************************************************)
(* Add.                                                                    *)
(***************************************************************************)
IsPrefix(a, b) == Len(a) <= Len(b) /\ SubSeq(b, 1, Len(a)) = a

\* the child list of node n of heap h; a Text has none
ChildrenOf(h, n) == IF h[n].kind = "Element" THEN h[n].Children ELSE <<>>

\* C15: a call of Add on a non-void element leaves the heap as it was but
\* for the receiver's Children, which become the old Children followed by
\* the arguments in order, and returns the receiver without error; in every
\* step the child list of every node is a prefix of its child list after.
C15_AddAppends ==
    [][/\ (ret'.op = "Add" /\ ~heap[ret'.node].IsVoid)
            => /\ heap' = [heap EXCEPT ![ret'.node].Children =
                                 heap[ret'.node].Children \o ret'.args]
               /\ ret'.err = NoErr
       /\ heap' # heap
            => \A n \in 1..Len(heap) :
                  /\ n <= Len(heap')
                  /\ IsPrefix(ChildrenOf(heap, n), ChildrenOf(heap', n))]_vars

\* an Add of a node to a non-void element that already had a child
C15_Witness ==
    /\ ret.op = "Add"
    /\ ~Me.IsVoid
    /\ Len(ret.args) >= 1
    /\ Len(Me.Children) > Len(ret.args)
    /\ Me.Children[1] # Me.Children[Len(Me.Children)]

\* C16: a call of Add on a void element leaves the whole heap as it was and
\* returns the receiver without error; an element a factory has just
\* created has no children, and no step changes a void element, so a void
\* element made by a factory never has a child.
C16_AddOnVoidNoOp ==
    [][/\ ret'.op = "newElement" => heap'[ret'.node].Children = <<>>
       /\ (ret'.op = "Add" /\ heap[ret'.node].IsVoid)
             => /\ heap' = heap
                /\ ret'.err = NoErr
                /\ heap[ret'.node].kind = "Element"
       /\ heap' # heap
            => \A n \in 1..Len(heap) :
                  (heap[n].kind = "Element" /\ heap[n].IsVoid) => heap'[n] = heap[n]]_vars

\* an Add of a node to the void element of a factory
C16_Witness ==
    /\ ret.op = "Add"
    /\ Me.IsVoid
    /\ Len(ret.args) >= 1
    /\ Me.Children = <<>>

(***************************************************************************)
(* If, Repeat and Map.                                                     *)
(***************************************************************************)
\* a tag-less element without children
EmptyNode(e) == e.kind = "Element" /\ e.Tag = <<>> /\ e.Children = <<>>

\* C17: If(true, node) returns node and constructs nothing; If(false, node)
\* returns an element it has just constructed, which has no tag and no
\* children and renders to the empty string without error.
C17_If ==
    [][ret'.op = "If" =>
          IF ret'.input
          THEN heap' = heap /\ ret'.node = ret'.args[1]
          ELSE /\ heap' = Append(heap, heap'[Len(heap')])
               /\ ret'.node = Len(heap')
               /\ EmptyNode(heap'[ret'.node])
               /\ \A it \in IterChoices(heap') :
                     NodeRender(heap', it, ret'.node, {}) = [s |-> <<>>, err |-> NoErr]]_vars

\* an If(false, node) for a node that does not render to the empty string
C17_Witness ==
    /\ ret.op = "If"
    /\ ret.input = FALSE
    /\ ret.node # ret.args[1]
    /\ Rendered(ret.args[1]).s # <<>>
    /\ ret.err = NoErr

\* the children of the element the last call returned
Results == heap[ret.node].Children

\* C18: Repeat(n, f) for n >= 0 makes n calls of f and returns a tag-less
\* element whose children are the n results in call order (a func that
\* constructs a node gives the n nodes in their order of construction, a
\* func that returns c gives n times c); when the results render, it renders
\* to the concatenation of what they render to, for n = 0 the empty string.
C18_Repeat ==
    (ret.op = "Repeat" /\ ret.input.n >= 0) =>
        /\ ret.err = NoErr
        /\ ret.calls = ret.input.n
        /\ heap[ret.node].kind = "Element"
        /\ heap[ret.node].Tag = <<>>
        /\ ~heap[ret.node].IsVoid
        /\ Len(Results) = ret.input.n
        /\ Results = ret.args
        /\ \A i \in 1..Len(Results) :
              IF ret.input.f.kind = "Same"
              THEN Results[i] = ret.input.f.node
              ELSE Results[i] = ret.node - ret.input.n - 1 + i
        /\ AllRenderOK(Results)
              => Rendered(ret.node) = [s |-> ConcatRendered(Results), err |-> NoErr]
        /\ ret.input.n = 0 => Rendered(ret.node) = [s |-> <<>>, err |-> NoErr]

\* a Repeat(2, f) of a func that constructs a Text
C18_Witness ==
    /\ ret.op = "Repeat"
    /\ ret.input.n = 2
    /\ ret.input.f.kind = "Text"
    /\ ret.calls = 2
    /\ Rendered(ret.node).s # <<>>

\* C19: Map(input, f) makes len(input) calls of f and returns a tag-less
\* element with len(input) children; child i is f(input[i]): the Text of
\* input[i] for the func that constructs one, c for a func that returns c;
\* when the children render, it renders to the concatenation of what they
\* render to, for an empty input the empty string.
C19_Map ==
    ret.op = "Map" =>
        /\ ret.err = NoErr
        /\ ret.calls = Len(ret.input.input)
        /\ heap[ret.node].kind = "Element"
        /\ heap[ret.node].Tag = <<>>
        /\ ~heap[ret.node].IsVoid
        /\ Len(Results) = Len(ret.input.input)
        /\ \A i \in 1..Len(Results) :
              IF ret.input.f.kind = "Same"
              THEN Results[i] = ret.input.f.node
              ELSE /\ heap[Results[i]] = TextNode(ret.input.input[i])
                   /\ Results[i] = ret.node - Len(Results) - 1 + i
        /\ AllRenderOK(Results)
              => Rendered(ret.node) = [s |-> ConcatRendered(Results), err |-> NoErr]
        /\ ret.input.input = <<>> => Rendered(ret.node) = [s |-> <<>>, err |-> NoErr]

\* a Map of two different items by the func that constructs a Text
C19_Witness ==
    /\ ret.op = "Map"
    /\ Len(ret.input.input) = 2
    /\ ret.input.input[1] # ret.input.input[2]
    /\ ret.input.f.kind = "Text"
    /\ Rendered(ret.node).s # <<>>

(***************************************************************************)
(* Validation of the attributes of a tag-less element.                     *)
(***************************************************************************)
\* C20: Element.Render of an element with the empty tag name and an invalid
\* attribute (blank key, nil value, or value neither string nor bool)
\* returns a validation error and the empty string.
C20_TaglessValidates ==
    (/\ ret.op = "Element.Render"
     /\ Me.Tag = <<>>
     /\ InvalidKeys(Me.Attrs) # {})
    => (ValidationError(ret.err) /\ ret.s = <<>>)

(***************************************************************************)
(* White space in the output of Text.Render.                               *)
(***************************************************************************)
\* the white space code points below U+0800: the ASCII ones, U+0085 (next
\* line) and U+00A0 (no-break space)
WhiteSpace(r) == AsciiSpace(r) \/ r \in {133, 160}

\* no two consecutive spaces, and no white space character but the space
Collapsed(s) ==
    /\ \A i \in 1..(Len(s) - 1) : ~(s[i] = 32 /\ s[i + 1] = 32)
    /\ \A j \in 1..Len(Runes(s)) : WhiteSpace(Runes(s)[j].r) => Runes(s)[j].r = 32

\* every character of s is white space
Blank(s) == \A j \in 1..Len(Runes(s)) : WhiteSpace(Runes(s)[j].r)

\* C21 as stated: for every input string, the output of Text.Render has no
\* two consecutive spaces and no white space character other than the space.
C21_AlwaysCollapsed ==
    ret.op = "Text.Render" => Collapsed(ret.s)

\* C21: for every input string with a character that is not white space,
\* the output of Text.Render has no two consecutive spaces and no white
\* space character other than the space; a string of white space only
\* renders to at most two spaces.
C21_CollapsedUnlessBlank ==
    ret.op = "Text.Render" =>
        IF Blank(TextValue)
        THEN ret.s \in {<<>>, <<32>>, <<32, 32>>}
        ELSE Collapsed(ret.s)

\* a rendered Text with a run of two white space characters next to a
\* character that is not white space
C21_Witness ==
    /\ ret.op = "Text.Render"
    /\ ~Blank(TextValue)
    /\ \E i \in 1..(Len(TextValue) - 1) :
          AsciiSpace(TextValue[i]) /\ AsciiSpace(TextValue[i + 1])
    /\ Len(ret.s) < Len(TextValue)

\* no byte of s fails to decode
ValidUTF8(s) == \A j \in 1..Len(Runes(s)) : Runes(s)[j].r # 65533

FirstRune(s) == Runes(s)[1].r

LastRune(s) == Runes(s)[Len(Runes(s))].r

\* C22: for a valid UTF-8 string with a character that is not white space,
\* the output of Text.Render starts with a space iff the first character of
\* the string is a white space code point, and ends with a space iff its
\* last character is one.
C22_EdgesByCodePoint ==
    (/\ ret.op = "Text.Render"
     /\ TextValue # <<>>
     /\ ValidUTF8(TextValue)
     /\ ~Blank(TextValue))
    => /\ ret.s[1] = 32 <=> WhiteSpace(FirstRune(TextValue))
       /\ ret.s[Len(ret.s)] = 32 <=> WhiteSpace(LastRune(TextValue))

(***************************************************************************)
(* The shape of the tree: cycles and sharing.                              *)
(***************************************************************************)
\* the nodes in the child list of node n
ChildSet(n) == {ChildrenOf(heap, n)[i] : i \in 1..Len(ChildrenOf(heap, n))}

RECURSIVE ReachThrough(_, _)
ReachThrough(S, k) ==
    IF k = 0 THEN S ELSE ReachThrough(S \cup UNION {ChildSet(m) : m \in S}, k - 1)

\* the nodes reachable from n through Children
Below(n) == ReachThrough(ChildSet(n), Len(heap))

\* C23: no element is reachable from itself through Children, and no render
\* has run without end.
C23_Acyclic ==
    /\ \A n \in Elements : n \notin Below(n)
    /\ ~Crashed

\* the number of times n occurs in the sequence children
RECURSIVE CountIn(_, _)
CountIn(children, n) ==
    IF children = <<>> THEN 0
    ELSE (IF Head(children) = n THEN 1 ELSE 0) + CountIn(Tail(children), n)

\* the number of times n occurs in the child lists of the nodes from m on
RECURSIVE OccurrencesFrom(_, _)
OccurrencesFrom(n, m) ==
    IF m > Len(heap) THEN 0
    ELSE CountIn(ChildrenOf(heap, m), n) + OccurrencesFrom(n, m + 1)

\* C24: every element occurs at most once among the Children sequences of
\* all elements.
C24_ExclusiveOwnership ==
    \A n \in Elements : OccurrencesFrom(n, 1) <= 1

(***************************************************************************)
(* A void element without a tag.                                           *)
(***************************************************************************)
\* C26: Element.Render of a void element with the empty tag name and a
\* non-empty Children sequence returns the empty string and no error.
C26_VoidTaglessRendersNothing ==
    (/\ ret.op = "Element.Render"
     /\ Me.Tag = <<>>
     /\ Me.IsVoid
     /\ Me.Children # <<>>)
    => (ret.s = <<>> /\ ret.err = NoErr)

(***************************************************************************)
(* The effects of a render.                                                *)
(***************************************************************************)
\* C25: a step of Element.Render, Text.Render, renderAttrs or
\* Render(writer, node) leaves every node of the heap as it was, whether it
\* returns an error or not; Render(writer, node) makes at most one Write
\* call and the others make none.
C25_RenderLeavesTree ==
    [][ret'.op \in {"Element.Render", "Text.Render", "renderAttrs", "Render"}
          => /\ heap' = heap
             /\ Len(ret'.writes) <= 1
             /\ ret'.op # "Render" => ret'.writes = <<>>]_vars

\* a Render(writer, node) of an element with a child whose Write failed
C25_Witness ==
    /\ ret.op = "Render"
    /\ ret.err = WriteError
    /\ Len(ret.writes) = 1
    /\ heap[ret.node].kind = "Element"
    /\ heap[ret.node].Children # <<>>

(***************************************************************************)
(* Render on a nil element.                                                *)
(***************************************************************************)
\* C27: Render on a nil *Element returns the empty string and no error.
C27_NilRendersEmpty ==
    ret.op = "nil.Render" => (ret.s = <<>> /\ ret.err = NoErr)

(***************************************************************************)
(* The tags of the output.                                                 *)
(***************************************************************************)
\* the first index from i on at which s has one of the bytes of B, or
\* Len(s) + 1
RECURSIVE FindByte(_, _, _)
FindByte(s, i, B) ==
    IF i > Len(s) \/ s[i] \in B THEN i ELSE FindByte(s, i + 1, B)

\* the elements of the tree with tag name t are void
VoidTag(t) == \E n \in Elements : heap[n].Tag = t /\ heap[n].IsVoid

\* the tags of s from byte i on are balanced, the names of the elements
\* opened and not yet closed being stack: a closing tag closes the element
\* opened last, an opening tag of a void element opens nothing, no tag has
\* an empty name, and in the end nothing is left open
RECURSIVE Balanced(_, _, _)
ClosingTag(s, name, next, stack) ==
    /\ name # <<>>
    /\ stack # <<>>
    /\ stack[Len(stack)] = name
    /\ Balanced(s, next, SubSeq(stack, 1, Len(stack) - 1))

OpeningTag(s, name, next, stack) ==
    /\ name # <<>>
    /\ Balanced(s, next, IF VoidTag(name) THEN stack ELSE Append(stack, name))

Balanced(s, i, stack) ==
    IF i > Len(s) THEN stack = <<>>
    ELSE IF s[i] # 60 THEN Balanced(s, i + 1, stack)
    ELSE IF i < Len(s) /\ s[i + 1] = 47
         THEN ClosingTag(s, SubSeq(s, i + 2, FindByte(s, i, {62}) - 1),
                         FindByte(s, i, {62}) + 1, stack)
         ELSE OpeningTag(s, SubSeq(s, i + 1, FindByte(s, i, {32, 62}) - 1),
                         FindByte(s, i, {62}) + 1, stack)

OnlyKey == CHOOSE k \in DOMAIN Me.Attrs : TRUE

\* what Render writes before the attribute value, and after the children
BeforeValue == <<60>> \o Me.Tag \o <<32>> \o TrimSpace(OnlyKey) \o <<61, 34>>

AfterChildren == <<60, 47>> \o Me.Tag \o <<62>>

\* ret.s is BeforeValue, x bytes that stand for the attribute value, `">`,
\* y bytes that stand for the normalized text, and AfterChildren
EscapedParts(x, y) ==
    /\ Len(ret.s) = Len(BeforeValue) + x + 2 + y + Len(AfterChildren)
    /\ SubSeq(ret.s, 1, Len(BeforeValue)) = BeforeValue
    /\ Unescape(SubSeq(ret.s, Len(BeforeValue) + 1, Len(BeforeValue) + x), 1)
           = Me.Attrs[OnlyKey].str
    /\ SubSeq(ret.s, Len(BeforeValue) + x + 1, Len(BeforeValue) + x + 2) = <<34, 62>>
    /\ Unescape(SubSeq(ret.s, Len(BeforeValue) + x + 3, Len(BeforeValue) + x + 2 + y), 1)
           = Normalized(heap[Me.Children[1]].value)
    /\ SubSeq(ret.s, Len(BeforeValue) + x + 3 + y, Len(ret.s)) = AfterChildren

\* C29: the output of a non-void element with one string attribute and one
\* Text child is `<`, the tag as it is, a space, the trimmed key as it is,
\* `="`, the escaped value, `">`, the escaped text, and the closing tag with
\* the tag as it is; the escaped parts have no raw < > " ' and no bare &,
\* and stand for the value and for the normalized text.
C29_EscapingCoverage ==
    (/\ ret.op = "Element.Render"
     /\ Cardinality(DOMAIN Me.Attrs) = 1
     /\ Me.Attrs[OnlyKey].type = "string"
     /\ TrimSpace(OnlyKey) # <<>>
     /\ Me.Tag # <<>>
     /\ ~Me.IsVoid
     /\ Len(Me.Children) = 1
     /\ heap[Me.Children[1]].kind = "Text")
    => /\ ret.err = NoErr
       /\ \E x, y \in 0..Len(ret.s) : EscapedParts(x, y)

\* a rendered element with a < in its tag, a key and a value with a
\* character that EscapeString replaces, and a text with one
C29_Witness ==
    /\ ret.op = "Element.Render"
    /\ ret.err = NoErr
    /\ \E i \in 1..Len(Me.Tag) : Me.Tag[i] = 60
    /\ \E i \in 1..Len(OnlyKey) : OnlyKey[i] \in {34, 38, 60}
    /\ \E i \in 1..Len(Me.Attrs[OnlyKey].str) : Me.Attrs[OnlyKey].str[i] \in {34, 38, 39, 60, 62}
    /\ \E i \in 1..Len(heap[1].value) : heap[1].value[i] \in {34, 38, 39, 60, 62}

(***************************************************************************)
(* newElement.                                                             *)
(***************************************************************************)
\* the attribute map of element e is a reference to a map of the caller
Shared(e) == "ref" \in DOMAIN e.Attrs

\* the attributes of element e now
AttrsNow(e) == IF Shared(e) THEN heap[e.Attrs.ref].m ELSE e.Attrs

\* C30: the element newElement(tag, attrs, isVoid...) has constructed holds
\* the first map it was passed, the map itself: at any time its attributes
\* are what that map holds now, whatever the other maps passed hold; with
\* no map passed it holds an empty map of its own; it is void iff a first
\* isVoid was passed and is true; it has no children.
C30_NewElement ==
    Constructed =>
        /\ IF ret.args # <<>>
           THEN /\ Me.Attrs = ret.args[1]
                /\ AttrsNow(Me) = heap[ret.args[1].ref].m
           ELSE /\ ~Shared(Me)
                /\ AttrsNow(Me) = EmptyKV
        /\ Me.IsVoid = (ret.input # <<>> /\ ret.input[1])
        /\ Me.Children = <<>>

\* an element constructed with two different maps and the flag true, after
\* a write to the first map
C30_Witness ==
    /\ ret.op = "KV.set"
    /\ Len(ret.args) = 2
    /\ ret.args[1] # ret.args[2]
    /\ Cardinality(DOMAIN AttrsNow(Me)) = 2
    /\ heap[ret.args[2].ref].m # AttrsNow(Me)
    /\ Me.IsVoid

====
